---- MODULE Spec2Model ----
(***************************************************************************)
(* Browsing/search controller of the Pokedex (scripts/scripts.js,          *)
(* scripts/api.js).  The globals of scripts.js are the state; every event  *)
(* handler and every resumption of an async function after an await is one *)
(* action.  JavaScript runs each of them to its next await without         *)
(* interruption, so an action is the code between two awaits.              *)
(*                                                                         *)
(* A record of the remote dataset is represented by its id; its name is    *)
(* Name(id).  The three regions keep their order and adjacency but are     *)
(* scaled down (KantoSize, JohtoSize, HoennSize ids instead of 151, 100,   *)
(* 135) and so is the page size (limit), keeping the property that the     *)
(* first and last region are not a multiple of the page size while the     *)
(* middle one is.                                                          *)
(***************************************************************************)
EXTENDS Integers, Sequences, FiniteSets, TLC

\* ------------------------------------------------------------------ bounds
KantoSize == 3
JohtoSize == 2
HoennSize == 3
\* page size: `let limit = 20` in the source, scaled with the regions
limit == 2
\* async executions (loadPokemon, loadMorePokemon in its timer, handleSearch) that
\* may be suspended at the same time
MaxPending == 2
\* fetches that reject or return malformed data in one run
MaxFailures == 1
\* links of one evolution chain whose record fetch may fail
MaxNodeFailures == 2

VARIABLES
    selectedRegion,   \* scripts.js:19
    regionStart,      \* scripts.js:21
    regionEnd,        \* scripts.js:23
    pokemonList,      \* scripts.js:7, the ids of the loaded records in list order
    currentOffset,    \* scripts.js:9
    isLoading,        \* scripts.js:13
    isInSearchMode,   \* scripts.js:17
    pokemonGrid,      \* the cards of #pokemonGrid, by id, in display order
    loads,            \* the suspended executions of loadPokemon
    timers,           \* loadMorePokemon calls waiting in setTimeout(2000)
    searches,         \* the suspended executions of handleSearch
    failures,         \* fetches that have failed so far (bounded by MaxFailures)
    loadMoreShown,    \* .load-more-section is displayed (scripts.js:365-375)
    op,               \* what ran last: the handler, or how the resumed function went on
    pagesDone,        \* page loads completed without error since the last reset
    overlapped,       \* a page load ran while another was suspended, since the last reset
    submitted,        \* the value of #searchInput that handleSearch read in the last step
    shownError,       \* the message that showError displayed in the last step
    settled,          \* the fetch that settled in the last step: who awaited it, how it ended,
                      \* whether a reset came while it was awaited, and how many
                      \* searches submitted before the awaiting one are still suspended
    currentPokemonIndex,  \* overlay.js:7
    largeView,        \* the record shown by #largeViewOverlay, or NoRecord
    evolution         \* the execution of loadEvolutionChain and the elements it holds

vars == <<selectedRegion, regionStart, regionEnd, pokemonList, currentOffset,
          isLoading, isInSearchMode, pokemonGrid, loads, timers, searches,
          failures, loadMoreShown, op, pagesDone, overlapped, submitted, shownError,
          settled, currentPokemonIndex, largeView, evolution>>

\* the state of the detail overlay
nav == <<currentPokemonIndex, largeView>>

\* no overlay is attached to the document
NoRecord == 0

\* handleSearch did not run in the last step
NoQuery == <<"#">>

\* no fetch settled in the last step
NoFetch == [request |-> "none", outcome |-> "none", stale |-> FALSE, behind |-> 0]

\* the last step read no search term, displayed no error and settled no fetch
Silent == submitted' = NoQuery /\ shownError' = "none" /\ settled' = NoFetch

Min(a, b) == IF a < b THEN a ELSE b

\* setupMainContentListeners (scripts.js:155) has run: the first selectRegion attaches
\* the listeners of the search box and of the load-more button
listening == op # "init"

\* scripts.js:365-375, the display of .load-more-section after
\* updateLoadMoreButton(_, hideCompletely) in mode searching
updateLoadMoreButton(searching, hideCompletely) == ~(searching \/ hideCompletely)

Idle == [pc |-> "idle"]

\* ------------------------------------------------------------ RegionCatalog
Regions == {"kanto", "johto", "hoenn"}

\* scripts.js:166-170 (scaled)
regionLimits ==
    [kanto |-> [start |-> 1, end |-> KantoSize],
     johto |-> [start |-> KantoSize + 1, end |-> KantoSize + JohtoSize],
     hoenn |-> [start |-> KantoSize + JohtoSize + 1,
                end |-> KantoSize + JohtoSize + HoennSize]]

\* scripts.js:172: regionLimits[region] || regionLimits.kanto
setRegionLimits(region) ==
    IF region \in DOMAIN regionLimits THEN regionLimits[region] ELSE regionLimits.kanto

\* scripts.js:181-187
getRegionPokemonIds(rs, re) ==
    [k \in 1..(IF re >= rs THEN re - rs + 1 ELSE 0) |-> rs + k - 1]

\* the region test without its lower bound
isPokemonInCurrentRegion_noLowerBound(pokemonId, rs, re) == pokemonId <= re

\* scripts.js:213-215
isPokemonInCurrentRegion(pokemonId, rs, re) == pokemonId >= rs /\ pokemonId <= re

\* ------------------------------------------------------- strings and dataset
\* A string is the sequence of its characters.
Letters == {"a", "b", "c", "A", "B", "C"}
Digits == {"0", "1", "2", "3", "4", "5", "6", "7", "8", "9"}

\* String.prototype.toLowerCase on one character
LowerChar(c) ==
    CASE c = "A" -> "a" [] c = "B" -> "b" [] c = "C" -> "c" [] OTHER -> c

toLowerCase(s) == [k \in 1..Len(s) |-> LowerChar(s[k])]

RECURSIVE trimStart(_)
trimStart(s) == IF s # <<>> /\ Head(s) = " " THEN trimStart(Tail(s)) ELSE s

RECURSIVE trimEnd(_)
trimEnd(s) == IF s # <<>> /\ s[Len(s)] = " " THEN trimEnd(SubSeq(s, 1, Len(s) - 1)) ELSE s

\* String.prototype.trim
trim(s) == trimEnd(trimStart(s))

\* the character class [a-zA-Z0-9\s-] of unnamed/part_003:152 and :172
IsAllowedChar(c) == c \in Letters \cup Digits \cup {" ", "-"}

\* the character class forgotten
isValidSearchTerm_anyCharacter(searchTerm) ==
    searchTerm # <<>> /\ Len(trim(searchTerm)) >= 1

\* unnamed/part_003:149-153
isValidSearchTerm(searchTerm) ==
    /\ searchTerm # <<>>
    /\ Len(trim(searchTerm)) >= 1
    /\ \A k \in 1..Len(searchTerm) : IsAllowedChar(searchTerm[k])

\* unnamed/part_003:160-164
isPokemonId(searchTerm) ==
    LET cleanTerm == trim(searchTerm)
    IN  cleanTerm # <<>> /\ \A k \in 1..Len(cleanTerm) : cleanTerm[k] \in Digits

\* unnamed/part_003:171-173
sanitizeSearchTerm(searchTerm) == SelectSeq(trim(toLowerCase(searchTerm)), IsAllowedChar)

DigitValue(c) ==
    CASE c = "0" -> 0 [] c = "1" -> 1 [] c = "2" -> 2 [] c = "3" -> 3 [] c = "4" -> 4
      [] c = "5" -> 5 [] c = "6" -> 6 [] c = "7" -> 7 [] c = "8" -> 8 [] c = "9" -> 9

RECURSIVE parseInt(_)
\* parseInt(s, 10) of a string of decimal digits
parseInt(s) ==
    IF s = <<>> THEN 0 ELSE 10 * parseInt(SubSeq(s, 1, Len(s) - 1)) + DigitValue(s[Len(s)])

\* unnamed/part_003:180-184
sanitizePokemonId(searchTerm) == parseInt(trim(searchTerm))

\* String.prototype.includes
includes(s, t) ==
    \E k \in 0..(Len(s) - Len(t)) : SubSeq(s, k + 1, k + Len(t)) = t

DigitChar(d) ==
    CASE d = 0 -> "0" [] d = 1 -> "1" [] d = 2 -> "2" [] d = 3 -> "3" [] d = 4 -> "4"
      [] d = 5 -> "5" [] d = 6 -> "6" [] d = 7 -> "7" [] d = 8 -> "8" [] d = 9 -> "9"

RECURSIVE DecimalOf(_)
DecimalOf(n) == IF n < 10 THEN <<DigitChar(n)>> ELSE DecimalOf(n \div 10) \o <<DigitChar(n % 10)>>

\* The remote dataset: every id of the three regions has a record with a name of
\* its own.  Two ids in three have a name of four or more characters, the third
\* a two-character name (the stub that makes the exact-name path succeed).
AllIds == 1..(KantoSize + JohtoSize + HoennSize)

Name(id) ==
    CASE id % 3 = 1 -> <<"a", "b", "c">> \o DecimalOf(id)
      [] id % 3 = 2 -> <<"c", "a", "b">> \o DecimalOf(id)
      [] OTHER      -> <<"b">> \o DecimalOf(id)

\* ------------------------------------------------------------ error messages
\* An Error is its name and its message, the message a string as above.
\* api.js:179 and 199
NotInRegionMessage ==
    <<"P", "o", "k", "e", "m", "o", "n", " ", "n", "o", "t", " ", "i", "n", " ", "c",
      "u", "r", "r", "e", "n", "t", " ", "r", "e", "g", "i", "o", "n">>

\* api.js:317: `No Pokemon found matching "${searchTerm}"`
NoMatchMessage(searchTerm) ==
    <<"N", "o", " ", "P", "o", "k", "e", "m", "o", "n", " ", "f", "o", "u", "n", "d",
      " ", "m", "a", "t", "c", "h", "i", "n", "g", " ", "\"">>
        \o searchTerm \o <<"\"">>

\* api.js:119: `Pokemon with ID ${id} not found`
IdNotFoundMessage(id) ==
    <<"P", "o", "k", "e", "m", "o", "n", " ", "w", "i", "t", "h", " ", "I", "D", " ">>
        \o DecimalOf(id) \o
        <<" ", "n", "o", "t", " ", "f", "o", "u", "n", "d">>

Error(message) == [name |-> "Error", message |-> message]

\* what fetch rejects with when the network is down
NetworkError == [name |-> "TypeError", message |-> <<"F", "a", "i", "l", "e", "d", " ", "t", "o", " ", "f", "e", "t", "c", "h">>]

\* what fetchPokemonById(id) may reject with (api.js:113-129)
FetchErrors(id) == {Error(IdNotFoundMessage(id)), NetworkError}

\* a handler that has no message for an error
handleAPIError_silent(error) == "none"

\* unnamed/part_003:193-212, the key of the message returned
handleAPIError(error) ==
    IF includes(error.message, <<"n", "o", "t", " ", "f", "o", "u", "n", "d">>)
    THEN "notFound"
    ELSE IF error.name = "TypeError"
    THEN "network"
    ELSE IF includes(error.message,
                     <<"s", "t", "a", "t", "u", "s", ":", " ", "5", "0", "0">>)
    THEN "server"
    ELSE "unknown"

\* ------------------------------------------------------------- page loading
LoadSlots == 1..MaxPending

Active(lds) == {k \in LoadSlots : lds[k] # Idle}

\* the suspended executions, counted; one more may begin while this is below MaxPending
Pending == Cardinality(Active(loads)) + timers + Len(searches)

FreeSlot(lds) == CHOOSE k \in LoadSlots : lds[k] = Idle /\ \A j \in 1..(k - 1) : lds[j] # Idle

\* a reset of the session that cancels the loads in flight
MarkReset_abort(lds) == [k \in LoadSlots |-> Idle]

\* every suspended load has seen a reset of the session since it began
MarkReset(lds) ==
    [k \in LoadSlots |-> IF lds[k] = Idle THEN Idle ELSE [lds[k] EXCEPT !.reset = TRUE]]

\* the spec's clamp: the offset never passes the end of the region
OffsetAfterLoad_clamped(off) == Min(off + limit, regionEnd - regionStart + 1)

\* api.js:236: currentOffset += limit
OffsetAfterLoad(off) == off + limit

\* a failed page counted as loaded
OffsetAfterFailure_advance(off) == off + limit

\* a failed page restarting the pagination
OffsetAfterFailure_restart(off) == 0

\* api.js:243-249: catch and finally leave currentOffset as it is
OffsetAfterFailure(off) == off

\* api.js:238-242 and 246-249: the display of .load-more-section when a load has
\* completed with offset off, having read endIndex of len ids, in region rs..re
LoadMoreAfterLoad(off, endIndex, len, rs, re, searching) ==
    IF off < Len(getRegionPokemonIds(rs, re))
    THEN updateLoadMoreButton(searching, FALSE)
    ELSE updateLoadMoreButton(searching, endIndex >= len)

\* api.js:216-250, from the call to the first await (api.js:227), with the globals
\* as the caller left them: off = currentOffset, rs..re = the region, lds = the
\* suspended loads.  With an empty id range the loop body never runs and the call
\* completes without suspending.
\* shown is the display of .load-more-section and searching the mode at the call.
loadPokemon(off, rs, re, lds, pages, ovl, shown, searching) ==
    LET pokemonIds == getRegionPokemonIds(rs, re)
        startIndex == off
        endIndex   == Min(startIndex + limit, Len(pokemonIds))
    IN  /\ overlapped' = (ovl \/ Active(lds) # {})
        /\ IF startIndex < endIndex
           THEN /\ Active(lds) # LoadSlots
                /\ loads' = [lds EXCEPT ![FreeSlot(lds)] =
                                [pc |-> "fetch", pokemonIds |-> pokemonIds,
                                 startIndex |-> startIndex, endIndex |-> endIndex,
                                 i |-> startIndex, reset |-> FALSE]]
                /\ isLoading' = TRUE
                /\ currentOffset' = off
                /\ pagesDone' = pages
                /\ loadMoreShown' = shown
           ELSE /\ loads' = lds
                /\ isLoading' = FALSE
                /\ currentOffset' = OffsetAfterLoad(off)
                /\ pagesDone' = pages + 1
                /\ loadMoreShown' = LoadMoreAfterLoad(OffsetAfterLoad(off), endIndex,
                                                      Len(pokemonIds), rs, re, searching)

\* a check that lets every response through
isValidPokemonData_any(outcome) == TRUE

\* unnamed/part_003:135-142, on what a fetch returned
isValidPokemonData(outcome) == outcome = "ok"

\* a loop that takes every other id of the page
nextFetch_skipping(i) == i + 2

\* api.js:223: i++, the loop goes on to the next id once the awaited fetch is back
nextFetch(i) == i + 1

\* the flag cleared only when the load succeeded
finallyIsLoading_onSuccessOnly(outcome) == outcome = "fail"

\* api.js:243-244: the finally block of loadPokemon clears the in-flight flag,
\* whatever the outcome of the load
finallyIsLoading(outcome) == FALSE

\* api.js:223-231 and 236-249: fetchPokemonById of load k settles.
\*   "ok"      the record of the requested id
\*   "invalid" a response that fails isValidPokemonData
\*   "fail"    the fetch rejects (api.js:243-245, then finally)
LoadFetchDone(k, outcome) ==
    LET l == loads[k]
        pokemonId == l.pokemonIds[l.i + 1]
    IN  /\ l # Idle
        /\ outcome # "ok" => failures < MaxFailures
        /\ failures' = IF outcome = "ok" THEN failures ELSE failures + 1
        /\ submitted' = NoQuery
        /\ settled' = [request |-> "loadPokemon", outcome |-> outcome, stale |-> l.reset,
                       behind |-> 0]
        /\ UNCHANGED <<nav, evolution>>
        /\ IF outcome = "fail"
           THEN shownError' \in {handleAPIError(error) : error \in FetchErrors(pokemonId)}
           ELSE shownError' = "none"
        /\ IF outcome = "fail"
           THEN /\ loads' = [loads EXCEPT ![k] = Idle]
                /\ isLoading' = finallyIsLoading(outcome)
                /\ op' = "loadFailed"
                /\ loadMoreShown' =
                       IF OffsetAfterFailure(currentOffset)
                              < Len(getRegionPokemonIds(regionStart, regionEnd))
                       THEN updateLoadMoreButton(isInSearchMode, FALSE)
                       ELSE loadMoreShown
                /\ currentOffset' = OffsetAfterFailure(currentOffset)
                /\ UNCHANGED <<pokemonList, pokemonGrid, pagesDone>>
           ELSE /\ IF isValidPokemonData(outcome)
                   THEN /\ pokemonList' = Append(pokemonList, pokemonId)
                        /\ pokemonGrid' = Append(pokemonGrid, pokemonId)
                   ELSE UNCHANGED <<pokemonList, pokemonGrid>>
                /\ IF nextFetch(l.i) < l.endIndex
                   THEN /\ loads' = [loads EXCEPT ![k].i = nextFetch(l.i)]
                        /\ op' = "loadFetch"
                        /\ UNCHANGED <<isLoading, currentOffset, pagesDone, loadMoreShown>>
                   ELSE /\ loads' = [loads EXCEPT ![k] = Idle]
                        /\ op' = "loadDone"
                        /\ currentOffset' = OffsetAfterLoad(currentOffset)
                        /\ isLoading' = finallyIsLoading(outcome)
                        /\ pagesDone' = pagesDone + 1
                        /\ loadMoreShown' =
                               LoadMoreAfterLoad(OffsetAfterLoad(currentOffset), l.endIndex,
                                                 Len(l.pokemonIds), regionStart, regionEnd,
                                                 isInSearchMode)
        /\ UNCHANGED <<selectedRegion, regionStart, regionEnd, isInSearchMode,
                       timers, searches, overlapped>>

\* the guard without the in-flight flag
loadMoreGuard_ignoresLoading(loading, searching) == searching

\* api.js:258: if (isLoading || isInSearchMode) return;
loadMoreGuard(loading, searching) == loading \/ searching

\* api.js:257-262: the click on #loadMoreBtn, up to the setTimeout
loadMorePokemon ==
    /\ listening
    /\ loadMoreShown
    /\ op' = "loadMorePokemon"
    /\ Silent
    /\ UNCHANGED <<nav, evolution>>
    /\ IF loadMoreGuard(isLoading, isInSearchMode)
       THEN UNCHANGED timers
       ELSE /\ Pending < MaxPending
            /\ timers' = timers + 1
    /\ UNCHANGED <<selectedRegion, regionStart, regionEnd, pokemonList, currentOffset,
                   isLoading, isInSearchMode, pokemonGrid, loads, searches, failures,
                   loadMoreShown, pagesDone, overlapped>>

\* api.js:262-263: the 2000 ms timer of loadMorePokemon fires and loadPokemon is called
LoadMoreTimer ==
    /\ timers > 0
    /\ timers' = timers - 1
    /\ op' = "loadMoreTimer"
    /\ Silent
    /\ UNCHANGED <<nav, evolution>>
    /\ loadPokemon(currentOffset, regionStart, regionEnd, loads, pagesDone, overlapped,
                   loadMoreShown, isInSearchMode)
    /\ UNCHANGED <<selectedRegion, regionStart, regionEnd, pokemonList, isInSearchMode,
                   pokemonGrid, searches, failures>>

\* ------------------------------------------------------------ selectRegion
\* selectRegion calling loadPokemon before it resets the session: the load reads the
\* offset and the region of the session that is being replaced
selectRegion_loadFirst(region) ==
    LET limits == setRegionLimits(region)
        lds == MarkReset(loads)
        pokemonIds == getRegionPokemonIds(regionStart, regionEnd)
        startIndex == currentOffset
        endIndex == Min(startIndex + limit, Len(pokemonIds))
    IN  /\ Pending < MaxPending
        /\ selectedRegion' = region
        /\ regionStart' = limits.start
        /\ regionEnd' = limits.end
        /\ pokemonList' = <<>>
        /\ pokemonGrid' = <<>>
        /\ currentOffset' = 0
        /\ pagesDone' = 0
        /\ overlapped' = (Active(lds) # {})
        /\ op' = "selectRegion"
        /\ loadMoreShown' = updateLoadMoreButton(isInSearchMode, FALSE)
        /\ IF startIndex < endIndex
           THEN /\ loads' = [lds EXCEPT ![FreeSlot(lds)] =
                                [pc |-> "fetch", pokemonIds |-> pokemonIds,
                                 startIndex |-> startIndex, endIndex |-> endIndex,
                                 i |-> startIndex, reset |-> FALSE]]
                /\ isLoading' = TRUE
           ELSE loads' = lds /\ isLoading' = FALSE
        /\ Silent
        /\ UNCHANGED <<isInSearchMode, timers, searches, failures, nav, evolution>>

\* scripts.js:135-158
selectRegion(region) ==
    LET limits == setRegionLimits(region)
    IN  /\ Pending < MaxPending
        /\ selectedRegion' = region
        /\ regionStart' = limits.start
        /\ regionEnd' = limits.end
        /\ pokemonList' = <<>>
        /\ pokemonGrid' = <<>>
        /\ op' = "selectRegion"
        /\ loadPokemon(0, limits.start, limits.end, MarkReset(loads), 0, FALSE,
                       updateLoadMoreButton(isInSearchMode, FALSE), isInSearchMode)
        /\ Silent
        /\ UNCHANGED <<isInSearchMode, timers, searches, failures, nav, evolution>>

\* ------------------------------------------------------------------- search
\* displaySearchResult restarting the pagination
displaySearchResult_resets(pokemonArray) ==
    /\ pokemonGrid' = pokemonArray
    /\ isInSearchMode' = TRUE
    /\ loadMoreShown' = updateLoadMoreButton(TRUE, FALSE)
    /\ op' = "displaySearchResult"
    /\ pokemonList' = <<>>
    /\ currentOffset' = 0

\* a search whose outcome is thrown away on arrival
displaySearchResult_discarded(pokemonArray) ==
    /\ op' = "displaySearchResult"
    /\ UNCHANGED <<pokemonGrid, isInSearchMode, loadMoreShown, pokemonList, currentOffset>>

\* scripts.js:223-237
displaySearchResult(pokemonArray) ==
    /\ pokemonGrid' = pokemonArray
    /\ isInSearchMode' = TRUE
    /\ loadMoreShown' = updateLoadMoreButton(TRUE, FALSE)
    /\ op' = "displaySearchResult"
    /\ UNCHANGED <<pokemonList, currentOffset>>

\* every suspended search has seen the view reset since it began
MarkCleared(srch) == [n \in 1..Len(srch) |-> [srch[n] EXCEPT !.cleared = TRUE]]

\* the spec's exitSearchMode: reload only when nothing is loaded, otherwise show
\* the loaded records again
resetToDefaultView_keep ==
    IF pokemonList = <<>>
    THEN /\ Pending < MaxPending
         /\ isInSearchMode' = FALSE
         /\ pokemonGrid' = <<>>
         /\ pokemonList' = <<>>
         /\ op' = "resetToDefaultView"
         /\ searches' = MarkCleared(searches)
         /\ loadPokemon(0, regionStart, regionEnd, MarkReset(loads), 0, FALSE,
                        updateLoadMoreButton(FALSE, FALSE), FALSE)
    ELSE /\ isInSearchMode' = FALSE
         /\ pokemonGrid' = pokemonList
         /\ op' = "resetToDefaultView"
         /\ searches' = MarkCleared(searches)
         /\ loadMoreShown' = updateLoadMoreButton(FALSE, FALSE)
         /\ UNCHANGED <<pokemonList, currentOffset, isLoading, loads, pagesDone, overlapped>>

\* scripts.js:243-250
resetToDefaultView ==
    /\ Pending < MaxPending
    /\ isInSearchMode' = FALSE
    /\ pokemonGrid' = <<>>
    /\ pokemonList' = <<>>
    /\ op' = "resetToDefaultView"
    /\ searches' = MarkCleared(searches)
    /\ loadPokemon(0, regionStart, regionEnd, MarkReset(loads), 0, FALSE,
                   updateLoadMoreButton(FALSE, FALSE), FALSE)

\* the values typed into #searchInput
Queries ==
    { <<>>, <<" ">>, <<"2">>, <<"a", "!">>, <<"a", "b", "c">>, <<"b", "3">>, <<"A", "b">> }

\* api.js:302-321 as called at api.js:194-195 and 205-206: a fuzzy scan over the
\* current region, suspended in its first fetch.  visited and fetched are the ids
\* whose fetch has settled and has succeeded so far; cleared tells whether
\* resetToDefaultView has run since the search began.
FuzzyScan(term) ==
    [pc |-> "fuzzy", term |-> term, pokemonId |-> regionStart,
     pokemonIds |-> getRegionPokemonIds(regionStart, regionEnd), matchingPokemon |-> <<>>,
     visited |-> <<>>, fetched |-> <<>>, cleared |-> FALSE]

\* a search suspended in the single fetch of pc
SingleFetch(pc, term, pokemonId) ==
    [pc |-> pc, term |-> term, pokemonId |-> pokemonId, pokemonIds |-> <<>>,
     matchingPokemon |-> <<>>, visited |-> <<>>, fetched |-> <<>>, cleared |-> FALSE]

\* an empty query taken for a term to validate
isEmptyQuery_never(searchTerm) == FALSE

\* api.js:278: searchTerm === ''
isEmptyQuery(searchTerm) == searchTerm = <<>>

\* the exact-name fetch skipped from four characters on only
scansDirectly_fromFour(sanitizedTerm) == Len(sanitizedTerm) >= 4

\* api.js:193: sanitizedTerm.length >= 3
scansDirectly(sanitizedTerm) == Len(sanitizedTerm) >= 3

\* api.js:274-294 with 158-209, from the click to the first await
handleSearch(value) ==
    LET searchTerm == trim(value)
        sanitizedTerm == sanitizeSearchTerm(searchTerm)
        quiet == shownError' = "none" /\ UNCHANGED searches
    IN  /\ listening
        /\ submitted' = value
        /\ settled' = NoFetch
        /\ UNCHANGED <<selectedRegion, regionStart, regionEnd, timers, failures, nav, evolution>>
        /\ IF isEmptyQuery(searchTerm)
           THEN resetToDefaultView /\ shownError' = "none"
           ELSE /\ UNCHANGED <<pokemonList, currentOffset, isLoading, isInSearchMode,
                               pokemonGrid, loads, loadMoreShown, pagesDone, overlapped>>
                /\ IF ~isValidSearchTerm(searchTerm)
                   THEN op' = "invalidSearchTerm" /\ quiet
                   ELSE IF isPokemonId(searchTerm)
                   THEN IF ~isPokemonInCurrentRegion(sanitizePokemonId(searchTerm),
                                                     regionStart, regionEnd)
                        THEN \* api.js:178-181, then 290-293
                             /\ op' = "notInRegion"
                             /\ shownError' = handleAPIError(Error(NotInRegionMessage))
                             /\ UNCHANGED searches
                        ELSE /\ Pending < MaxPending
                             /\ op' = "handleSearch"
                             /\ shownError' = "none"
                             /\ searches' = Append(searches,
                                    SingleFetch("byId", searchTerm,
                                                sanitizePokemonId(searchTerm)))
                   ELSE /\ Pending < MaxPending
                        /\ op' = "handleSearch"
                        /\ shownError' = "none"
                        /\ searches' = Append(searches,
                               IF scansDirectly(sanitizedTerm)
                               THEN FuzzyScan(sanitizedTerm)
                               ELSE SingleFetch("byName", sanitizedTerm, 0))

Remove(seq, n) == [k \in 1..(Len(seq) - 1) |-> IF k < n THEN seq[k] ELSE seq[k + 1]]

\* the ids whose record the remote serves under this name (api.js:136-150)
IdsNamed(term) == {id \in AllIds : toLowerCase(Name(id)) = toLowerCase(term)}

\* the exact-name path returning nothing
exactNameOutcome_none(pokemon) == <<>>

\* api.js:201: return [pokemon]
exactNameOutcome(pokemon) == <<pokemon>>

\* the scan stopping at its first match
scanEnds_atFirstMatch(s, matchingPokemon) ==
    s.pokemonId = s.pokemonIds[Len(s.pokemonIds)] \/ matchingPokemon # <<>>

\* api.js:305: the for-of loop over pokemonIds has taken its last id
scanEnds(s, matchingPokemon) == s.pokemonId = s.pokemonIds[Len(s.pokemonIds)]

\* api.js:202-206: the search s goes on as a fuzzy scan for its term
Rescan(s) == [FuzzyScan(s.term) EXCEPT !.cleared = s.cleared]

\* the function whose fetch a search at pc is suspended in
Awaited(pc) ==
    CASE pc = "byId" -> "searchPokemonById"
      [] pc = "byName" -> "searchPokemon"
      [] pc = "fuzzy" -> "searchPokemonByFuzzyName"

\* a notification that takes the displayed cards away
showError_clearsGrid(message) ==
    /\ shownError' = message
    /\ pokemonGrid' = <<>>
    /\ UNCHANGED <<pokemonList, currentOffset, isInSearchMode, loadMoreShown>>

\* overlay.js:870-885, called from the catch of handleSearch (api.js:290-293): a
\* notification is appended to the body; list, offset, mode and grid stay
showError(message) ==
    /\ shownError' = message
    /\ UNCHANGED <<pokemonList, currentOffset, isInSearchMode, pokemonGrid, loadMoreShown>>

\* the fetch of suspended search n settles: "ok" with the record, "fail" rejected
SearchFetchDone(n, outcome) ==
    LET s == searches[n]
        done == Remove(searches, n)
        keep == UNCHANGED <<pokemonList, currentOffset, isInSearchMode, pokemonGrid,
                            loadMoreShown>>
        \* the search goes on to its next fetch
        goesOn == shownError' = "none" /\ keep
    IN  /\ n \in 1..Len(searches)
        /\ submitted' = NoQuery
        /\ settled' = [request |-> Awaited(s.pc), outcome |-> outcome, stale |-> s.cleared,
                       behind |-> n - 1]
        /\ UNCHANGED <<selectedRegion, regionStart, regionEnd, isLoading, loads, timers,
                       pagesDone, overlapped, nav, evolution>>
        /\ CASE s.pc = "byId" ->
                \* api.js:181 and 287-292
                /\ outcome = "fail" => failures < MaxFailures
                /\ failures' = IF outcome = "fail" THEN failures + 1 ELSE failures
                /\ searches' = done
                /\ IF outcome = "ok"
                   THEN displaySearchResult(<<s.pokemonId>>) /\ shownError' = "none"
                   ELSE /\ op' = "searchFailed"
                        /\ \E error \in FetchErrors(s.pokemonId) :
                               showError(handleAPIError(error))
             [] s.pc = "byName" ->
                \* api.js:196-207: a name the remote does not know is a rejection
                /\ outcome = "ok" => IdsNamed(s.term) # {}
                /\ UNCHANGED failures
                /\ IF outcome = "ok"
                   THEN LET pokemon == CHOOSE id \in IdsNamed(s.term) : TRUE
                        IN  IF isPokemonInCurrentRegion(pokemon, regionStart, regionEnd)
                            THEN /\ searches' = done
                                 /\ displaySearchResult(exactNameOutcome(pokemon))
                                 /\ shownError' = "none"
                            ELSE \* api.js:197-200, caught at api.js:202
                                 /\ searches' = [searches EXCEPT ![n] = Rescan(s)]
                                 /\ op' = "nameNotInRegion"
                                 /\ goesOn
                   ELSE /\ searches' = [searches EXCEPT ![n] = Rescan(s)]
                        /\ op' = "exactNameFailed"
                        /\ goesOn
             [] s.pc = "fuzzy" ->
                \* api.js:302-321; a name found, the search ends at api.js:287-293
                LET hit == outcome = "ok" /\ includes(toLowerCase(Name(s.pokemonId)),
                                                       toLowerCase(s.term))
                    matchingPokemon == IF hit THEN Append(s.matchingPokemon, s.pokemonId)
                                       ELSE s.matchingPokemon
                IN  /\ outcome = "fail" => failures < MaxFailures
                    /\ failures' = IF outcome = "fail" THEN failures + 1 ELSE failures
                    /\ IF ~scanEnds(s, matchingPokemon)
                       THEN /\ searches' =
                                   [searches EXCEPT
                                      ![n].pokemonId = s.pokemonId + 1,
                                      ![n].matchingPokemon = matchingPokemon,
                                      ![n].visited = Append(s.visited, s.pokemonId),
                                      ![n].fetched = IF outcome = "ok"
                                                     THEN Append(s.fetched, s.pokemonId)
                                                     ELSE s.fetched]
                            /\ op' = "searchFetch"
                            /\ goesOn
                       ELSE /\ searches' = done
                            /\ IF matchingPokemon = <<>>
                               THEN /\ op' = "searchFailed"
                                    /\ showError(handleAPIError(
                                                     Error(NoMatchMessage(s.term))))
                               ELSE /\ displaySearchResult(matchingPokemon)
                                    /\ shownError' = "none"

\* scripts.js:97-101: the input event of #searchInput with an empty value
searchInputCleared ==
    /\ listening
    /\ Silent
    /\ UNCHANGED <<selectedRegion, regionStart, regionEnd, timers, failures, nav, evolution>>
    /\ IF isInSearchMode
       THEN resetToDefaultView
       ELSE /\ op' = "searchInputCleared"
            /\ UNCHANGED <<pokemonList, currentOffset, isLoading, isInSearchMode, pokemonGrid,
                           loads, searches, loadMoreShown, pagesDone, overlapped>>

\* ---------------------------------------------------------- detail overlay
\* Array.prototype.findIndex(p => p.id === id): the first index (from 0), or -1
findIndex(list, id) ==
    IF \E k \in 1..Len(list) : list[k] = id
    THEN (CHOOSE k \in 1..Len(list) : list[k] = id /\ \A j \in 1..(k - 1) : list[j] # id) - 1
    ELSE -1

\* what leaves untouched everything but the overlay
OverlayOnly ==
    /\ Silent
    /\ UNCHANGED <<selectedRegion, regionStart, regionEnd, pokemonList, currentOffset,
                   isLoading, isInSearchMode, pokemonGrid, loads, timers, searches,
                   failures, loadMoreShown, pagesDone, overlapped, evolution>>

\* overlay.js:14-17 with 24-41, the click on the card of pokemon (scripts.js:203);
\* the overlay, once attached, covers the cards (overlay.js:31-36)
openLargeView(pokemon) ==
    /\ largeView = NoRecord
    /\ currentPokemonIndex' = findIndex(pokemonList, pokemon)
    /\ largeView' = pokemon
    /\ op' = "openLargeView"
    /\ OverlayOnly

\* overlay.js:47-54, by the close button (overlay.js:108-110) or a click beside the view
closeLargeView ==
    /\ largeView # NoRecord
    /\ largeView' = NoRecord
    /\ op' = "closeLargeView"
    /\ UNCHANGED currentPokemonIndex
    /\ OverlayOnly

\* the navigation of scripts.js:304-314, which stops at both ends
navigateIndex_clamped(currentIndex, direction, length) ==
    IF currentIndex + direction >= 0 /\ currentIndex + direction < length
    THEN currentIndex + direction
    ELSE currentIndex

\* overlay.js:62-68
navigateIndex(currentIndex, direction, length) ==
    LET newIndex == currentIndex + direction
    IN  IF newIndex < 0 THEN length - 1
        ELSE IF newIndex >= length THEN 0
        ELSE newIndex

\* overlay.js:61-76, the buttons of the overlay (overlay.js:589-590).  Rendering
\* pokemonList[currentPokemonIndex] when there is no such element throws in
\* createLargeViewTemplate (overlay.js:554) after the old overlay was removed.
navigatePokemon(direction) ==
    LET newIndex == navigateIndex(currentPokemonIndex, direction, Len(pokemonList))
    IN  /\ largeView # NoRecord
        /\ currentPokemonIndex' = newIndex
        /\ largeView' = IF newIndex >= 0 /\ newIndex < Len(pokemonList)
                        THEN pokemonList[newIndex + 1]
                        ELSE NoRecord
        /\ op' = IF direction = 1 THEN "navigateNext" ELSE "navigatePrev"
        /\ OverlayOnly

\* ---------------------------------------------------------- evolution tab
\* a link of the remote chain (evolution-chain/{id}): the species it names, by the
\* id in its url (api.js:397-399), and the links it evolves to, in source order
Link(id, evolves_to) == [id |-> id, evolves_to |-> evolves_to]

\* no chain was served
NoChain == Link(0, <<>>)

\* the chains the remote serves: a species that does not evolve, three stages in
\* a line, and a root whose first branch has a further stage and whose second has not
RemoteChains ==
    { Link(1, <<>>),
      Link(1, << Link(2, << Link(3, <<>>) >>) >>),
      Link(1, << Link(2, << Link(3, <<>>) >>), Link(4, <<>>) >>) }

\* #evolutionLoading, #evolutionChain, #evolutionError as created (overlay.js:365-377)
NoResolution ==
    [pc |-> "idle", pokemon |-> NoRecord, pending |-> <<>>, evolutionChain |-> <<>>,
     chain |-> NoChain, failed |-> {},
     loading |-> TRUE, content |-> "none", error |-> FALSE]

\* overlay.js:217-226: the record of pokemonList that has the name the overlay shows
getCurrentPokemon ==
    IF \E k \in 1..Len(pokemonList) : pokemonList[k] = largeView
    THEN largeView
    ELSE NoRecord

\* what leaves untouched everything but the evolution tab
EvolutionOnly ==
    /\ submitted' = NoQuery
    /\ shownError' = "none"
    /\ UNCHANGED <<selectedRegion, regionStart, regionEnd, pokemonList, currentOffset,
                   isLoading, isInSearchMode, pokemonGrid, loads, timers, searches,
                   failures, loadMoreShown, pagesDone, overlapped, nav>>

\* overlay.js:117-131, the evolution tab button: loadEvolutionChain up to its await
\* (api.js:470-479), getEvolutionChain up to its first await (api.js:445-447).  One
\* resolution runs at a time.  Without a current record (overlay.js:126-129) the
\* tab is shown as its template left it (overlay.js:365-377).
switchTab ==
    /\ largeView # NoRecord
    /\ evolution.pc \in {"idle", "done"}
    /\ evolution' = IF getCurrentPokemon # NoRecord
                    THEN [NoResolution EXCEPT !.pc = "fetchSpeciesById",
                                              !.pokemon = getCurrentPokemon,
                                              !.loading = TRUE]
                    ELSE evolution
    /\ op' = "switchTab"
    /\ settled' = NoFetch
    /\ EvolutionOnly

\* api.js:476-494 from the return of getEvolutionChain on, with overlay.js:201-211:
\* what loadEvolutionChain leaves in the elements for the chain it was given
showEvolution(e, evolutionChain) ==
    [e EXCEPT !.pc = "done",
              !.pending = <<>>,
              !.evolutionChain = evolutionChain,
              !.loading = FALSE,
              !.error = (Len(evolutionChain) = 0),
              !.content = IF Len(evolutionChain) = 0 THEN "none"
                          ELSE IF Len(evolutionChain) = 1 THEN "single"
                          ELSE "stages"]

\* fetchSpeciesById settles (api.js:356-370, awaited at api.js:447): rejected, or
\* with a species that has a chain reference, or with one that has none (api.js:449-451)
SpeciesFetchDone(outcome) ==
    /\ evolution.pc = "fetchSpeciesById"
    /\ evolution' = IF outcome = "ok"
                    THEN [evolution EXCEPT !.pc = "fetchEvolutionChain"]
                    ELSE showEvolution(evolution, <<>>)
    /\ op' = IF outcome = "ok" THEN "speciesFetch" ELSE "evolutionShown"
    /\ settled' = [request |-> "fetchSpeciesById", outcome |-> outcome, stale |-> FALSE,
                   behind |-> 0]
    /\ EvolutionOnly

\* fetchEvolutionChain settles (api.js:377-390, awaited at api.js:453); served, the
\* root link is entered (api.js:455-457, 421-426)
ChainFetchDone(outcome, chain) ==
    /\ evolution.pc = "fetchEvolutionChain"
    /\ evolution' = IF outcome = "ok"
                    THEN [evolution EXCEPT !.pc = "processEvolutionChain",
                                           !.chain = chain,
                                           !.pending = <<chain>>]
                    ELSE showEvolution(evolution, <<>>)
    /\ op' = IF outcome = "ok" THEN "chainFetch" ELSE "evolutionShown"
    /\ settled' = [request |-> "fetchEvolutionChain", outcome |-> outcome, stale |-> FALSE,
                   behind |-> 0]
    /\ EvolutionOnly

\* a walk that leaves the links below a link until the links beside it are done
descend_siblingsFirst(link, rest) == rest \o link.evolves_to

\* api.js:429-431: the links still to enter once the record of link is there: the
\* links below it in source order, then what the callers' loops have left
descend(link, rest) == link.evolves_to \o rest

\* a walk that goes on below a link whose record could not be fetched
abandon_keepsDescendants(link, rest) == link.evolves_to \o rest

\* api.js:433-435: the catch of the call for link ends that call only
abandon(link, rest) == rest

\* fetchPokemonById for the entered link settles (api.js:426-428, 433-435); with
\* no link left getEvolutionChain returns (api.js:458) and the chain is shown
NodeFetchDone(outcome) ==
    /\ evolution.pc = "processEvolutionChain"
    /\ outcome = "fail" => Cardinality(evolution.failed) < MaxNodeFailures
    /\ LET link == Head(evolution.pending)
           rest == Tail(evolution.pending)
           evolutionChain == IF outcome = "ok"
                             THEN Append(evolution.evolutionChain, link.id)
                             ELSE evolution.evolutionChain
           pending == IF outcome = "ok" THEN descend(link, rest)
                      ELSE abandon(link, rest)
           failed == IF outcome = "ok" THEN evolution.failed
                     ELSE evolution.failed \cup {link.id}
       IN  /\ evolution' = IF pending = <<>>
                           THEN showEvolution([evolution EXCEPT !.failed = failed],
                                              evolutionChain)
                           ELSE [evolution EXCEPT !.pending = pending,
                                                  !.evolutionChain = evolutionChain,
                                                  !.failed = failed]
           /\ op' = IF pending = <<>> THEN "evolutionShown" ELSE "nodeFetch"
    /\ settled' = [request |-> "processEvolutionChain", outcome |-> outcome, stale |-> FALSE,
                   behind |-> 0]
    /\ EvolutionOnly

\* ------------------------------------------------------------ specification
\* scripts.js:7-23; the landing page is shown, so init() loads nothing (scripts.js:39)
Init ==
    /\ selectedRegion = "kanto"
    /\ regionStart = regionLimits.kanto.start
    /\ regionEnd = regionLimits.kanto.end
    /\ pokemonList = <<>>
    /\ currentOffset = 0
    /\ isLoading = FALSE
    /\ isInSearchMode = FALSE
    /\ pokemonGrid = <<>>
    /\ loads = [k \in LoadSlots |-> Idle]
    /\ timers = 0
    /\ searches = <<>>
    /\ failures = 0
    /\ loadMoreShown = FALSE
    /\ op = "init"
    /\ pagesDone = 0
    /\ overlapped = FALSE
    /\ submitted = NoQuery
    /\ shownError = "none"
    /\ settled = NoFetch
    /\ currentPokemonIndex = 0
    /\ largeView = NoRecord
    /\ evolution = NoResolution

\* the resumptions and the handlers without input
Steps ==
    \/ loadMorePokemon
    \/ LoadMoreTimer
    \/ \E k \in LoadSlots, outcome \in {"ok", "invalid", "fail"} : LoadFetchDone(k, outcome)
    \/ \E n \in 1..MaxPending, outcome \in {"ok", "fail"} : SearchFetchDone(n, outcome)
    \/ searchInputCleared

\* the queries that switch the mode: empty, a numeric id, a malformed term
BrowseQueries == { <<" ">>, <<"2">>, <<"a", "!">> }

\* Browsing: the region is selected once, from the landing page, which selectRegion
\* then hides (scripts.js:151); the search box takes the queries of BrowseQueries.
Next ==
    \/ ~listening /\ \E region \in Regions : selectRegion(region)
    \/ \E value \in BrowseQueries : handleSearch(value)
    \/ Steps

Spec == Init /\ [][Next]_vars

\* Region change: as Spec, but selectRegion may run again at any time: the click
\* listeners of scripts.js:67-72 stay attached to the region buttons and selectRegion
\* does not look at whether the landing page is still shown (scripts.js:135-158).
NextReselect ==
    \/ \E region \in Regions : selectRegion(region)
    \/ \E value \in BrowseQueries : handleSearch(value)
    \/ Steps

\* Browsing with fetches that settle: as Spec, and every fetch a page load waits
\* for eventually resolves or rejects, so that the continuation of the load runs
\* (api.js:225), and every timer of loadMorePokemon eventually fires (api.js:262).
SpecSettling ==
    /\ Spec
    /\ \A k \in LoadSlots :
           WF_vars(\E outcome \in {"ok", "invalid", "fail"} : LoadFetchDone(k, outcome))
    /\ WF_vars(LoadMoreTimer)

SpecReselect == Init /\ [][NextReselect]_vars

\* Searching: the region is selected once and its first page loads while the search
\* button is clicked with any query of Queries; no more pages are asked for.
NextSearch ==
    \/ ~listening /\ \E region \in Regions : selectRegion(region)
    \/ \E value \in Queries : handleSearch(value)
    \/ \E k \in LoadSlots, outcome \in {"ok", "invalid", "fail"} : LoadFetchDone(k, outcome)
    \/ \E n \in 1..MaxPending, outcome \in {"ok", "fail"} : SearchFetchDone(n, outcome)

SpecSearch == Init /\ [][NextSearch]_vars

\* the query that displays a record by its id
NavigatorQueries == { <<"3">> }

\* Detail view: browsing as in Spec with one query, and the cards of the grid are
\* clicked and the overlay's buttons used.
NextNavigator ==
    \/ ~listening /\ \E region \in Regions : selectRegion(region)
    \/ \E value \in NavigatorQueries : handleSearch(value)
    \/ Steps
    \/ \E k \in 1..Len(pokemonGrid) : openLargeView(pokemonGrid[k])
    \/ \E direction \in {-1, 1} : navigatePokemon(direction)
    \/ closeLargeView

SpecNavigator == Init /\ [][NextNavigator]_vars

\* Evolution tab: the region is selected once, its first page loads, a card is
\* clicked and the evolution tab of the overlay is opened.
NextEvolution ==
    \/ ~listening /\ \E region \in Regions : selectRegion(region)
    \/ \E k \in LoadSlots, outcome \in {"ok", "invalid", "fail"} : LoadFetchDone(k, outcome)
    \/ \E k \in 1..Len(pokemonGrid) : openLargeView(pokemonGrid[k])
    \/ closeLargeView
    \/ switchTab
    \/ \E outcome \in {"ok", "none", "fail"} : SpeciesFetchDone(outcome)
    \/ \E outcome \in {"ok", "fail"}, chain \in RemoteChains : ChainFetchDone(outcome, chain)
    \/ \E outcome \in {"ok", "fail"} : NodeFetchDone(outcome)

SpecEvolution == Init /\ [][NextEvolution]_vars

\* the queries of the three search paths: by id, by exact name, by fuzzy scan
FailureQueries == { <<"2">>, <<"A", "b">>, <<"a", "b", "c">> }

\* Failures: the region is selected once and its first page loads; the search
\* button is clicked with the queries of FailureQueries, and a card is clicked and
\* the evolution tab opened, the one while the other is not under way; any fetch
\* may be the one that fails.
NextFailures ==
    \/ ~listening /\ \E region \in Regions : selectRegion(region)
    \/ \E k \in LoadSlots, outcome \in {"ok", "invalid", "fail"} : LoadFetchDone(k, outcome)
    \/ evolution.pc \in {"idle", "done"} /\ \E value \in FailureQueries : handleSearch(value)
    \/ \E n \in 1..MaxPending, outcome \in {"ok", "fail"} : SearchFetchDone(n, outcome)
    \/ \E k \in 1..Len(pokemonGrid) : openLargeView(pokemonGrid[k])
    \/ searches = <<>> /\ switchTab
    \/ \E outcome \in {"ok", "none", "fail"} : SpeciesFetchDone(outcome)
    \/ \E outcome \in {"ok", "fail"}, chain \in RemoteChains : ChainFetchDone(outcome, chain)
    \/ \E outcome \in {"ok", "fail"} : NodeFetchDone(outcome)

SpecFailures == Init /\ [][NextFailures]_vars

\* Evolution tab with fetches that settle: the region is selected once and its
\* first page loads, the record with id 3 is searched for, a card is clicked once
\* and the evolution tab opened; every fetch that is awaited eventually resolves or
\* rejects and its continuation runs.
NextTab ==
    \/ ~listening /\ \E region \in Regions : selectRegion(region)
    \/ \E k \in LoadSlots, outcome \in {"ok", "invalid", "fail"} : LoadFetchDone(k, outcome)
    \/ \E value \in NavigatorQueries : handleSearch(value)
    \/ \E n \in 1..MaxPending, outcome \in {"ok", "fail"} : SearchFetchDone(n, outcome)
    \/ \E k \in 1..Len(pokemonGrid) : openLargeView(pokemonGrid[k])
    \/ switchTab
    \/ \E outcome \in {"ok", "none", "fail"} : SpeciesFetchDone(outcome)
    \/ \E outcome \in {"ok", "fail"}, chain \in RemoteChains : ChainFetchDone(outcome, chain)
    \/ \E outcome \in {"ok", "fail"} : NodeFetchDone(outcome)

SpecTab ==
    /\ Init /\ [][NextTab]_vars
    /\ \A k \in LoadSlots :
           WF_vars(\E outcome \in {"ok", "invalid", "fail"} : LoadFetchDone(k, outcome))
    /\ \A n \in 1..MaxPending :
           WF_vars(\E outcome \in {"ok", "fail"} : SearchFetchDone(n, outcome))
    /\ WF_vars(\E outcome \in {"ok", "none", "fail"} : SpeciesFetchDone(outcome))
    /\ WF_vars(\E outcome \in {"ok", "fail"}, chain \in RemoteChains :
                   ChainFetchDone(outcome, chain))
    /\ WF_vars(\E outcome \in {"ok", "fail"} : NodeFetchDone(outcome))

\* ------------------------------------------------------------------ claims
total == regionEnd - regionStart + 1

\* C1: at most one execution of loadPokemon is suspended at any time.
C1_AtMostOneLoadInFlight == Cardinality(Active(loads)) <= 1

\* the step just taken is the settling of the fetch that search n was suspended in
SearchSettled(n) ==
    /\ settled' # NoFetch
    /\ searches' # searches
    /\ \/ searches' = Remove(searches, n)
       \/ Len(searches') = Len(searches) /\ searches'[n] # searches[n]

\* C2: loadMorePokemon invoked while isLoading is set changes nothing: offset, list,
\* flag and mode stay, and no load, timer or search (hence no fetch) is begun.
C2_LoadMoreWhileLoadingIsNoop ==
    [][(op' = "loadMorePokemon" /\ isLoading) =>
         UNCHANGED <<selectedRegion, regionStart, regionEnd, pokemonList, currentOffset,
                     isLoading, isInSearchMode, pokemonGrid, loads, timers, searches>>]_vars

\* a click on load-more arrived while a page begun by an earlier load-more is loading
C2_Witness ==
    /\ op = "loadMorePokemon"
    /\ isLoading
    /\ \E k \in LoadSlots : loads[k] # Idle /\ loads[k].startIndex > 0

\* C3: pokemonList is in strictly ascending id order (so it has no duplicate).
C3_ListStrictlyAscending ==
    \A a, b \in 1..Len(pokemonList) : a < b => pokemonList[a] < pokemonList[b]

\* C4: 0 <= currentOffset <= number of ids of the active region.
C4_OffsetWithinRegion == 0 <= currentOffset /\ currentOffset <= total

\* C4, amended: currentOffset is a non-negative multiple of the page size (and may
\* pass the number of ids of the region).
C4_OffsetIsMultipleOfLimit == currentOffset >= 0 /\ currentOffset % limit = 0

\* the offset has passed the end of the region
C4_Witness == currentOffset > total /\ op = "loadDone"

\* C5: after N successful, non-overlapping page loads since the region was selected
\* the offset is min(N * limit, total).
C5_OffsetIsMinOfPagesAndTotal ==
    ~overlapped => currentOffset = Min(pagesDone * limit, total)

\* C5, amended: after N successful, non-overlapping page loads since the last reset
\* the offset is N * limit.
C5_OffsetIsPagesTimesLimit == ~overlapped => currentOffset = pagesDone * limit

\* the last page of a region whose size is no multiple of the page size is loaded
C5_Witness ==
    /\ ~overlapped
    /\ op = "loadDone"
    /\ pagesDone >= 2
    /\ pagesDone * limit > total

\* C6: a page load that ends (completed or failed) with no reset of the session
\* since it began leaves currentOffset at or above the offset it began with.
C6_LoadNeverDecreasesOffset ==
    [][\A k \in LoadSlots :
          (loads[k] # Idle /\ loads'[k] = Idle /\ ~loads[k].reset) =>
              currentOffset' >= loads[k].startIndex]_vars

\* a page begun past offset 0 has failed
C6_Witness == op = "loadFailed" /\ currentOffset > 0 /\ ~overlapped

\* C7: selectRegion sets offset 0, an empty list and the bounds of the selected
\* region, and the load it triggers begins at index 0 of that region's ids (its
\* first fetch is issued after the reset).
C7_SelectRegionResetsBeforeLoad ==
    [][op' = "selectRegion" =>
         /\ currentOffset' = 0
         /\ pokemonList' = <<>>
         /\ regionStart' = setRegionLimits(selectedRegion').start
         /\ regionEnd' = setRegionLimits(selectedRegion').end
         /\ \A k \in LoadSlots :
               (loads[k] = Idle /\ loads'[k] # Idle) =>
                   /\ loads'[k].startIndex = 0
                   /\ loads'[k].i = 0
                   /\ loads'[k].pokemonIds = getRegionPokemonIds(regionStart', regionEnd')]_vars

\* another region was selected after pages of the first were loaded
C7_Witness ==
    /\ op = "selectRegion"
    /\ selectedRegion = "johto"
    /\ \E k \in LoadSlots : loads[k] # Idle /\ loads[k].reset /\ loads[k].startIndex > 0
    /\ \E k \in LoadSlots : loads[k] # Idle /\ ~loads[k].reset /\ loads[k].i = 0

C9_ExitSearchKeepsLoadedRecords ==
    [][(op' = "resetToDefaultView" /\ isInSearchMode /\ pokemonList # <<>>) =>
         (~isInSearchMode' /\ UNCHANGED <<currentOffset, pokemonList, loads>>)]_vars

\* C9, amended: resetToDefaultView sets the mode to Listing, empties list and grid,
\* sets the offset to 0 and begins a load of the first page, whatever was loaded.
C9_ExitSearchAlwaysReloads ==
    [][op' = "resetToDefaultView" =>
         /\ ~isInSearchMode'
         /\ pokemonList' = <<>>
         /\ pokemonGrid' = <<>>
         /\ currentOffset' = 0
         /\ \E k \in LoadSlots :
               /\ loads[k] = Idle
               /\ loads'[k] # Idle
               /\ loads'[k].startIndex = 0
               /\ loads'[k].i = 0]_vars

\* search mode was left while a page begun by load-more was still loading
C9_Witness ==
    /\ op = "resetToDefaultView"
    /\ ~isInSearchMode
    /\ pokemonList = <<>>
    /\ \E k \in LoadSlots : loads[k] # Idle /\ loads[k].reset /\ loads[k].startIndex > 0

\* C10: displaySearchResult sets the mode to Searching and leaves currentOffset and
\* pokemonList as they were.
C10_EnterSearchKeepsPagination ==
    [][op' = "displaySearchResult" =>
         (isInSearchMode' /\ UNCHANGED <<currentOffset, pokemonList>>)]_vars

\* a search result is displayed over a paginated list
C10_Witness ==
    /\ op = "displaySearchResult"
    /\ isInSearchMode
    /\ currentOffset > 0
    /\ pokemonList # <<>>

\* C11: a numeric query whose id is outside the region fails as out of region,
\* begins no fetch, and leaves mode, offset and list as they were.
C11_OutOfRegionIdIssuesNoFetch ==
    [][(/\ submitted' # NoQuery
        /\ isPokemonId(trim(submitted'))
        /\ LET pokemonId == parseInt(trim(submitted'))
           IN  pokemonId < regionStart \/ pokemonId > regionEnd) =>
         /\ op' = "notInRegion"
         /\ shownError' # "none"
         /\ UNCHANGED <<isInSearchMode, currentOffset, pokemonList, pokemonGrid,
                        loads, timers, searches>>]_vars

\* id 2 was searched for in johto while its first page was loading
C11_Witness ==
    /\ op = "notInRegion"
    /\ submitted = <<"2">>
    /\ selectedRegion = "johto"
    /\ pokemonList # <<>>
    /\ Active(loads) # {}

\* C12: a non-numeric query whose sanitized term has three characters or more is
\* suspended in the fuzzy scan at once, and no search is ever suspended in the
\* exact-name fetch of such a term.
C12_LongTermScansDirectly ==
    [][/\ (/\ submitted' # NoQuery
           /\ isValidSearchTerm(trim(submitted'))
           /\ ~isPokemonId(trim(submitted'))
           /\ Len(sanitizeSearchTerm(trim(submitted'))) >= 3) =>
             /\ Len(searches') = Len(searches) + 1
             /\ searches'[Len(searches')].pc = "fuzzy"
       /\ \A n \in 1..Len(searches') :
             searches'[n].pc = "byName" => Len(searches'[n].term) < 3]_vars

\* the query abc has just been submitted
C12_Witness ==
    /\ op = "handleSearch"
    /\ submitted = <<"a", "b", "c">>
    /\ searches # <<>>
    /\ searches[Len(searches)].pc = "fuzzy"
    /\ searches[Len(searches)].visited = <<>>

\* C13: when the exact-name fetch of a search succeeds with a record of the region,
\* the search ends, the outcome displayed is that one record and no scan begins.
C13_ExactNameGivesSingleRecord ==
    [][\A n \in 1..Len(searches) :
          (/\ searches[n].pc = "byName"
           /\ SearchSettled(n)
           /\ settled'.outcome = "ok"
           /\ \E id \in IdsNamed(searches[n].term) :
                 id >= regionStart /\ id <= regionEnd) =>
            /\ searches' = Remove(searches, n)
            /\ op' = "displaySearchResult"
            /\ \E id \in IdsNamed(searches[n].term) : pokemonGrid' = <<id>>]_vars

\* the record named b3 was found by its name in kanto
C13_Witness ==
    /\ op = "displaySearchResult"
    /\ (settled.request = "searchPokemon" /\ settled.outcome = "ok")
    /\ selectedRegion = "kanto"
    /\ pokemonGrid = <<3>>

\* C14: when the exact-name fetch of a search succeeds with a record outside the
\* region, the search ends with an error and no scan begins.
C14_ExactNameOutOfRegionFails ==
    [][\A n \in 1..Len(searches) :
          (/\ searches[n].pc = "byName"
           /\ SearchSettled(n)
           /\ settled'.outcome = "ok"
           /\ IdsNamed(searches[n].term) # {}
           /\ \A id \in IdsNamed(searches[n].term) :
                 id < regionStart \/ id > regionEnd) =>
            /\ searches' = Remove(searches, n)
            /\ shownError' # "none"]_vars

\* C15: a fuzzy scan fetches the ids of the region one after the other in ascending
\* order, goes on after a fetch that failed, ends only with the last id, and its
\* outcome is the fetched records whose name contains the term, in id order.
C15_FuzzyScanVisitsWholeRegion ==
    [][\A n \in 1..Len(searches) :
          (searches[n].pc = "fuzzy" /\ SearchSettled(n)) =>
            LET s == searches[n]
                Matches(id) == includes(toLowerCase(Name(id)), toLowerCase(s.term))
                fetched == IF settled'.outcome = "ok"
                           THEN Append(s.fetched, s.pokemonId) ELSE s.fetched
            IN  /\ s.pokemonIds = [k \in 1..(regionEnd - regionStart + 1) |->
                                      regionStart + k - 1]
                /\ Append(s.visited, s.pokemonId) =
                       SubSeq(s.pokemonIds, 1, Len(s.visited) + 1)
                /\ IF Len(s.visited) + 1 < Len(s.pokemonIds)
                   THEN /\ Len(searches') = Len(searches)
                        /\ searches'[n].pc = "fuzzy"
                        /\ searches'[n].pokemonId = s.pokemonId + 1
                   ELSE /\ searches' = Remove(searches, n)
                        /\ SelectSeq(fetched, Matches) # <<>> =>
                               /\ op' = "displaySearchResult"
                               /\ pokemonGrid' = SelectSeq(fetched, Matches)]_vars

\* a scan that has a match went on after a fetch that failed
C15_Witness ==
    \E n \in 1..Len(searches) :
        /\ searches[n].pc = "fuzzy"
        /\ Len(searches[n].visited) = 2
        /\ Len(searches[n].fetched) = 1
        /\ searches[n].matchingPokemon # <<>>

\* C16: a fuzzy scan that ends without a match shows the message of the category
\* 'not found' and leaves the mode as it was.
C16_NoMatchIsNotFound ==
    [][(settled'.request = "searchPokemonByFuzzyName" /\ op' = "searchFailed") =>
         (shownError' = "notFound" /\ isInSearchMode' = isInSearchMode)]_vars

\* C17: a non-empty query with a character other than a letter, a digit, a space
\* or a hyphen is refused: no fetch begins, and mode, offset and list stay.
C17_InvalidCharacterIssuesNoFetch ==
    [][(/\ submitted' # NoQuery
        /\ trim(submitted') # <<>>
        /\ \E k \in 1..Len(submitted') :
              submitted'[k] \notin Letters \cup Digits \cup {" ", "-"}) =>
         /\ op' = "invalidSearchTerm"
         /\ shownError' = "none"
         /\ UNCHANGED <<isInSearchMode, currentOffset, pokemonList, pokemonGrid,
                        loads, timers, searches>>]_vars

\* the query a! was refused while a page was loading
C17_Witness ==
    /\ op = "invalidSearchTerm"
    /\ submitted = <<"a", "!">>
    /\ pokemonList # <<>>
    /\ Active(loads) # {}

\* C18: an empty or blank query is refused: no page load begins and offset and list
\* stay.
C18_EmptyQueryIsRefused ==
    [][(submitted' # NoQuery /\ trim(submitted') = <<>>) =>
         /\ UNCHANGED <<currentOffset, pokemonList, loads>>
         /\ Len(searches') = Len(searches)]_vars

\* C18, amended: an empty or blank query is no error: it resets the view as
\* resetToDefaultView does (mode Listing, list and grid emptied, offset 0) and the
\* first page begins to load; no search begins and no error is shown.
C18_EmptyQueryResetsView ==
    [][(submitted' # NoQuery /\ trim(submitted') = <<>>) =>
         /\ op' = "resetToDefaultView"
         /\ shownError' = "none"
         /\ ~isInSearchMode'
         /\ pokemonList' = <<>>
         /\ pokemonGrid' = <<>>
         /\ currentOffset' = 0
         /\ Len(searches') = Len(searches)
         /\ \A n \in 1..Len(searches) : searches'[n].pokemonId = searches[n].pokemonId
         /\ \E k \in LoadSlots :
               loads[k] = Idle /\ loads'[k] # Idle /\ loads'[k].i = 0]_vars

\* a blank query was submitted while a page was loading: the first page loads anew
C18_Witness ==
    /\ op = "resetToDefaultView"
    /\ submitted = <<" ">>
    /\ pokemonList = <<>>
    /\ currentOffset = 0
    /\ \E k \in LoadSlots : loads[k] # Idle /\ loads[k].reset /\ loads[k].i > 0
    /\ \E k \in LoadSlots : loads[k] # Idle /\ loads[k].i = 0 /\ ~loads[k].reset

\* C19: navigating over a list of L >= 1 records is cyclic: the new index is within
\* the list, from an index of the list it is (index + direction) mod L, and the view
\* shows the record at the new index (the same record again when L = 1).
C19_NavigateIsCyclic ==
    [][(op' \in {"navigateNext", "navigatePrev"} /\ Len(pokemonList) >= 1) =>
         LET L == Len(pokemonList)
             direction == IF op' = "navigateNext" THEN 1 ELSE -1
         IN  /\ currentPokemonIndex' \in 0..(L - 1)
             /\ currentPokemonIndex \in 0..(L - 1) =>
                    currentPokemonIndex' = (currentPokemonIndex + direction + L) % L
             /\ largeView' = pokemonList[currentPokemonIndex' + 1]]_vars

\* the previous record was asked for at the first of three records
C19_Witness ==
    /\ op = "navigatePrev"
    /\ Len(pokemonList) = 3
    /\ currentPokemonIndex = 2
    /\ largeView = pokemonList[3]
    /\ ~isInSearchMode

\* C20: openLargeView sets the index to the first position of the record in the
\* list; opened on a record that is not in the list, the next record asked for is
\* the one at index 1 mod L and the previous one the one at L - 1, as from index 0.
C20_OpenLocatesRecordOrFirst ==
    [][/\ (op' = "openLargeView" /\ \E k \in 1..Len(pokemonList) :
                                        pokemonList[k] = largeView') =>
             /\ pokemonList[currentPokemonIndex' + 1] = largeView'
             /\ \A j \in 1..currentPokemonIndex' : pokemonList[j] # largeView'
       /\ (/\ op = "openLargeView"
           /\ \A k \in 1..Len(pokemonList) : pokemonList[k] # largeView
           /\ Len(pokemonList) >= 1) =>
             /\ op' = "navigateNext" => currentPokemonIndex' = 1 % Len(pokemonList)
             /\ op' = "navigatePrev" => currentPokemonIndex' = Len(pokemonList) - 1]_vars

\* C21: the navigator works on the sequence that is shown: a record navigated to
\* in search mode is a record of the search outcome on display, and one navigated
\* to outside search mode is a record of pokemonList.
C21_NavigatorUsesActiveSequence ==
    [][(op' \in {"navigateNext", "navigatePrev"} /\ largeView' # NoRecord) =>
         IF isInSearchMode
         THEN \E k \in 1..Len(pokemonGrid) : pokemonGrid[k] = largeView'
         ELSE \E k \in 1..Len(pokemonList) : pokemonList[k] = largeView']_vars

\* the pre-order linearization of the links, in order, leaving out every link
\* whose id is in dropped together with all links below it
RECURSIVE PreOrderWithout(_, _)
PreOrderWithout(links, dropped) ==
    IF links = <<>> THEN <<>>
    ELSE LET link == Head(links)
         IN  (IF link.id \in dropped THEN <<>>
              ELSE <<link.id>> \o PreOrderWithout(link.evolves_to, dropped))
             \o PreOrderWithout(Tail(links), dropped)

\* getEvolutionChain has returned in the last step, after walking the served chain
ChainWalked ==
    /\ op = "evolutionShown"
    /\ evolution.pc = "done"
    /\ settled.request = "processEvolutionChain"

\* C22: when every fetch succeeds getEvolutionChain returns the pre-order
\* linearization of the served chain (a link before the links below it, a whole
\* branch before the next one, branches in source order): one record for a link
\* without branches, the three stages root first for a chain in a line; and the
\* empty chain when the species has no chain reference.
C22_ChainIsPreOrder ==
    /\ (ChainWalked /\ evolution.failed = {}) =>
           /\ evolution.evolutionChain = PreOrderWithout(<<evolution.chain>>, {})
           /\ evolution.chain.evolves_to = <<>> => Len(evolution.evolutionChain) = 1
           /\ evolution.chain = Link(1, << Link(2, << Link(3, <<>>) >>) >>) =>
                  evolution.evolutionChain = <<1, 2, 3>>
    /\ (op = "evolutionShown" /\ (settled.request = "fetchSpeciesById" /\ settled.outcome = "none")) =>
           evolution.evolutionChain = <<>>

\* the branching chain was walked without a failure: the stage below the first
\* branch comes before the second branch
C22_Witness ==
    /\ ChainWalked
    /\ evolution.failed = {}
    /\ Len(evolution.chain.evolves_to) = 2
    /\ evolution.evolutionChain = <<1, 2, 3, 4>>

\* C23: a record fetch that fails at a link drops that link and the links below
\* it and nothing else: getEvolutionChain returns the pre-order linearization of
\* what remains, with the links appended before and the branches beside the failing
\* link, whether walked before or after it.
C23_FailureDropsSubtreeOnly ==
    ChainWalked =>
        /\ evolution.evolutionChain = PreOrderWithout(<<evolution.chain>>, evolution.failed)
        /\ \A id \in evolution.failed :
               \A k \in 1..Len(evolution.evolutionChain) : evolution.evolutionChain[k] # id

\* the fetch for the first branch failed: the root and the second branch remain
C23_Witness ==
    /\ ChainWalked
    /\ evolution.failed = {2}
    /\ Len(evolution.chain.evolves_to) = 2
    /\ evolution.evolutionChain = <<1, 4>>

\* C24: within one page load and within one fuzzy scan the fetches are issued one
\* after the other in ascending id order: a load begins with the fetch for its first
\* id, the fetch for the next id is issued in the step in which the one before it
\* settles, never earlier, and a load that completes has fetched the last id of
\* its page; a scan moves to the next id of the region when its fetch settles.
C24_FetchesAreSequential ==
    [][/\ \A k \in LoadSlots :
            /\ (loads[k] = Idle /\ loads'[k] # Idle) => loads'[k].i = loads'[k].startIndex
            /\ (loads[k] # Idle /\ loads'[k] # Idle /\ loads'[k].i # loads[k].i) =>
                   /\ settled'.request = "loadPokemon"
                   /\ loads'[k].i = loads[k].i + 1
                   /\ loads'[k].pokemonIds[loads'[k].i + 1] = loads[k].pokemonIds[loads[k].i + 1] + 1
            /\ (loads[k] # Idle /\ loads'[k] = Idle /\ settled'.outcome # "fail") =>
                   loads[k].i = loads[k].endIndex - 1
       /\ \A n \in 1..Len(searches) :
            (/\ Len(searches') = Len(searches)
             /\ searches[n].pc = "fuzzy" /\ searches'[n].pc = "fuzzy"
             /\ searches'[n].pokemonId # searches[n].pokemonId) =>
                   /\ settled'.request = "searchPokemonByFuzzyName"
                   /\ searches'[n].pokemonId = searches[n].pokemonId + 1
                   /\ searches'[n].visited = Append(searches[n].visited, searches[n].pokemonId)]_vars

\* a fuzzy scan has just gone on to its second id while a page load waits for the
\* fetch of the second id of its page
C24_Witness ==
    /\ op = "searchFetch"
    /\ \E n \in 1..Len(searches) :
           /\ searches[n].pc = "fuzzy"
           /\ searches[n].visited = <<regionStart>>
           /\ searches[n].pokemonId = regionStart + 1
    /\ \E k \in LoadSlots : loads[k] # Idle /\ loads[k].i = loads[k].startIndex + 1

\* C25: nothing is cancelled.  A change of region or a return to the default view
\* leaves every suspended page load waiting for the same fetch; when a fetch of
\* such a load later succeeds its record is appended to the pokemonList of the
\* session then current, and when the load completes it adds limit to the
\* currentOffset of that session.
C25_StaleLoadStillApplies ==
    [][/\ op' \in {"selectRegion", "resetToDefaultView"} =>
            \A k \in LoadSlots :
                loads[k] # Idle =>
                    /\ loads'[k] # Idle
                    /\ loads'[k].pokemonIds = loads[k].pokemonIds
                    /\ loads'[k].i = loads[k].i
       /\ \A k \in LoadSlots :
            (/\ loads[k] # Idle /\ loads[k].reset
             /\ settled'.request = "loadPokemon"
             /\ loads'[k] # loads[k]) =>
                   /\ settled'.outcome = "ok" =>
                          pokemonList' = Append(pokemonList, loads[k].pokemonIds[loads[k].i + 1])
                   /\ op' = "loadDone" => currentOffset' = currentOffset + limit]_vars

\* the load begun for kanto completed after johto was selected: its last record is
\* the only one in the list, the offset counts its page, and the load of johto has
\* not had a fetch back yet
C25_Witness ==
    /\ op = "loadDone"
    /\ (settled.request = "loadPokemon" /\ settled.outcome = "ok")
    /\ settled.stale
    /\ selectedRegion = "johto"
    /\ pokemonList = <<regionLimits.kanto.start + 1>>
    /\ currentOffset = limit
    /\ \E k \in LoadSlots : loads[k] # Idle /\ ~loads[k].reset /\ loads[k].i = 0

\* C26: a page load is performed for load-more only in Listing mode and with
\* currentOffset below the number of ids of the region: loadMorePokemon invoked in
\* search mode returns at once, and loadMorePokemon invoked (and accepted, this
\* being the only timer) with currentOffset at or beyond that number issues no
\* fetch and leaves currentOffset and pokemonList as they are when it goes on.
C26_LoadMoreOnlyWhenPagesRemain ==
    [][/\ (op' = "loadMorePokemon" /\ isInSearchMode) =>
            UNCHANGED <<currentOffset, pokemonList, loads, timers>>
       /\ (/\ op = "loadMorePokemon" /\ ~isLoading /\ ~isInSearchMode
           /\ timers = 1 /\ currentOffset >= total
           /\ op' = "loadMoreTimer") =>
            UNCHANGED <<currentOffset, pokemonList, loads>>]_vars

\* C27: a fetched record that fails isValidPokemonData is not appended to
\* pokemonList (nor rendered), and a page load that completes adds the whole page
\* size to currentOffset, also when the record it dropped was its last.
C27_InvalidRecordDroppedOffsetAdvances ==
    [][/\ (settled'.request = "loadPokemon" /\ settled'.outcome = "invalid") =>
            UNCHANGED <<pokemonList, pokemonGrid>>
       /\ op' = "loadDone" => currentOffset' = currentOffset + limit]_vars

\* the only load so far completed on a record that failed the check: one record of
\* the page is in the list and the offset is a whole page
C27_Witness ==
    /\ op = "loadDone"
    /\ (settled.request = "loadPokemon" /\ settled.outcome = "invalid")
    /\ ~overlapped
    /\ pagesDone = 1
    /\ Len(pokemonList) = limit - 1
    /\ currentOffset = limit

\* C28: resetToDefaultView cancels no search: every suspended search stays
\* suspended in the same fetch, and when a search that has seen such a reset later
\* ends without an error its outcome is displayed: the grid holds the outcome (the
\* record asked for by id, the records a scan matched) and the mode is search mode.
C28_ClearedSearchStillApplies ==
    [][/\ op' = "resetToDefaultView" =>
            /\ Len(searches') = Len(searches)
            /\ \A n \in 1..Len(searches) :
                   /\ searches'[n].pc = searches[n].pc
                   /\ searches'[n].pokemonId = searches[n].pokemonId
       /\ \A n \in 1..Len(searches) :
            LET s == searches[n]
            IN  /\ (s.cleared /\ s.pc = "byId" /\ SearchSettled(n) /\ settled'.outcome = "ok") =>
                       /\ isInSearchMode'
                       /\ pokemonGrid' = <<s.pokemonId>>
                /\ (/\ s.cleared /\ s.pc = "fuzzy" /\ SearchSettled(n)
                    /\ searches' = Remove(searches, n) /\ shownError' = "none") =>
                       /\ isInSearchMode'
                       /\ pokemonGrid' # <<>>
                       /\ \A k \in 1..Len(pokemonGrid') :
                              includes(toLowerCase(Name(pokemonGrid'[k])), toLowerCase(s.term))]_vars

\* a search by id that was suspended when the view was reset has been displayed,
\* while the page load begun by that reset has not had a fetch back yet
C28_Witness ==
    /\ op = "displaySearchResult"
    /\ (settled.request = "searchPokemonById" /\ settled.outcome = "ok")
    /\ isInSearchMode
    /\ Len(pokemonGrid) = 1
    /\ settled.stale
    /\ pokemonList = <<>>
    /\ \E k \in LoadSlots : loads[k] # Idle /\ ~loads[k].reset /\ loads[k].i = 0

\* C29: a failing fetch never escapes handleSearch, loadPokemon or
\* loadEvolutionChain.  A page load whose fetch fails ends in that step with one
\* message; a search whose fetch fails either ends with one message or goes on
\* without one (the exact-name fetch falls back to the scan, the scan skips the
\* id), and a search that fails shows one message; an evolution resolution whose
\* fetch fails goes on or ends with the tab out of its loading state, without a
\* message.  No message is shown but for a failed load or search.
C29_FailuresAreCaughtAndShown ==
    [][/\ (settled'.request = "loadPokemon" /\ settled'.outcome = "fail") =>
            /\ op' = "loadFailed"
            /\ shownError' # "none"
            /\ \E k \in LoadSlots : loads[k] # Idle /\ loads'[k] = Idle
            /\ Cardinality(Active(loads')) = Cardinality(Active(loads)) - 1
       /\ (/\ settled'.request \in {"searchPokemonById", "searchPokemon",
                                    "searchPokemonByFuzzyName"}
           /\ settled'.outcome = "fail") =>
            \/ /\ op' = "searchFailed"
               /\ shownError' # "none"
               /\ Len(searches') = Len(searches) - 1
            \/ /\ op' \in {"searchFetch", "exactNameFailed"}
               /\ shownError' = "none"
               /\ Len(searches') = Len(searches)
            \/ /\ op' = "displaySearchResult"
               /\ shownError' = "none"
               /\ Len(searches') = Len(searches) - 1
       /\ op' \in {"searchFailed", "loadFailed"} => shownError' # "none"
       /\ shownError' # "none" => op' \in {"searchFailed", "loadFailed", "notInRegion"}
       /\ (/\ settled'.request \in {"fetchSpeciesById", "fetchEvolutionChain",
                                    "processEvolutionChain"}
           /\ settled'.outcome = "fail") =>
            /\ shownError' = "none"
            /\ evolution'.pc \in {"processEvolutionChain", "done"}
            /\ evolution'.pc = "done" =>
                   /\ ~evolution'.loading
                   /\ evolution'.error \/ evolution'.content # "none"]_vars

\* the fetch of a search by id was rejected and one message is shown, after the
\* evolution tab had ended in its error state because the fetch for the root of
\* the chain was rejected
C29_Witness ==
    /\ op = "searchFailed"
    /\ settled.request = "searchPokemonById" /\ settled.outcome = "fail"
    /\ shownError \in {"notFound", "network"}
    /\ searches = <<>>
    /\ evolution.pc = "done" /\ evolution.error /\ ~evolution.loading
    /\ evolution.failed = {1}
    /\ evolution.evolutionChain = <<>>

\* C30: when a page load has completed without error, the load-more control is
\* displayed if and only if the mode is Listing and currentOffset is below the
\* number of ids of the region; in search mode it is not displayed.
C30_LoadMoreOfferedIffPagesRemain ==
    [][op' = "loadDone" =>
         (loadMoreShown' <=> (~isInSearchMode' /\ currentOffset' < total'))]_vars

\* the ids of the records in list
Elements(list) == {list[k] : k \in 1..Len(list)}

\* C31: no id slot is skipped.  With no page load suspended, every id of the region
\* at a slot below min(currentOffset, total) has been fetched since the last reset
\* of the session; when no fetch has failed or returned a malformed record, every
\* fetched record is in pokemonList, so every such id is in pokemonList.
C31_NoSlotSkipped ==
    (Active(loads) = {} /\ failures = 0) =>
        \A slot \in 0..(Min(currentOffset, total) - 1) :
            regionStart + slot \in Elements(pokemonList)

\* C32: a page load that fails is not partially applied: currentOffset and
\* pokemonList are what they were when the load began.  For the first load of a
\* session, running alone and meeting the first failure, that is offset 0 and the
\* empty list.
C32_FailedLoadLeavesNoRecord ==
    [][(/\ op' = "loadFailed"
        /\ failures = 0 /\ pagesDone = 0 /\ ~overlapped
        /\ \A k \in LoadSlots : loads[k] # Idle => ~loads[k].reset) =>
         /\ pokemonList' = <<>>
         /\ currentOffset' = 0]_vars

\* C33: in search mode the grid holds the records of the search outcome and no
\* others: a step that stays in search mode and displays no new outcome leaves
\* the grid as it is, so no page load adds a card to it.
C33_NoLoadedCardInSearchMode ==
    [][(isInSearchMode /\ isInSearchMode' /\ op' # "displaySearchResult") =>
         pokemonGrid' = pokemonGrid]_vars

\* C34: an older search never overwrites the result of a newer one.  When a search
\* has displayed its outcome while searches submitted before it were still
\* suspended, and the next step is the display of the last of those, ending all
\* searches, the grid keeps the outcome of the newer search.
C34_NewestSearchWins ==
    [][(/\ op = "displaySearchResult" /\ settled.behind = 1
        /\ Len(searches) = 1
        /\ op' = "displaySearchResult" /\ searches' = <<>>) =>
         pokemonGrid' = pokemonGrid]_vars

C36_ShownRecordIsIndexedElement ==
    largeView # NoRecord =>
        /\ currentPokemonIndex >= 0
        /\ currentPokemonIndex < Len(pokemonList)
        /\ pokemonList[currentPokemonIndex + 1] = largeView


\* C37: a search that fails (identifier outside the region, nothing found, or a
\* rejected fetch) changes nothing of the session: no step of a search other than
\* the display of its outcome changes the mode, currentOffset, pokemonList or the
\* displayed grid, the step that reports the failure included.
C37_FailedSearchChangesNothing ==
    [][op' \in {"handleSearch", "searchFetch", "nameNotInRegion", "exactNameFailed",
                "notInRegion", "searchFailed"} =>
           UNCHANGED <<isInSearchMode, currentOffset, pokemonList, pokemonGrid>>]_vars

\* a search for an identifier is rejected by the remote while the first records of
\* the region are displayed: the failure is reported and the records are still there
C37_Witness ==
    /\ op = "searchFailed"
    /\ settled.request = "searchPokemonById"
    /\ shownError # "none"
    /\ ~isInSearchMode
    /\ pokemonGrid = pokemonList
    /\ pokemonList # <<>>


\* C38: when every fetch eventually resolves or rejects, every page load that
\* starts eventually terminates, and whenever no page load is executing isLoading
\* is false: the flag is cleared on success and on failure.
C38_LoadsTerminateAndClearFlag ==
    /\ [](Active(loads) = {} => ~isLoading)
    /\ \A k \in LoadSlots : (loads[k] # Idle) ~> (loads[k] = Idle)

\* a page load has just ended in a rejected fetch, no load is executing, the flag
\* is cleared and load-more is offered again
C38_Witness ==
    /\ op = "loadFailed"
    /\ Active(loads) = {}
    /\ ~isLoading
    /\ loadMoreShown
    /\ ~isInSearchMode


\* C39: when every fetch eventually resolves or rejects, the evolution tab, once
\* opened for the record the detail view shows, eventually leaves the loading state
\* and shows the chain content or the error state; also for a record opened from a
\* search outcome that is not in pokemonList.
C39_EvolutionTabLeavesLoading ==
    (op = "switchTab") ~>
        (/\ ~evolution.loading
         /\ evolution.content # "none" \/ evolution.error)


\* C40: the resolved chain has length exactly 1 ("does not evolve") only if the
\* served chain is a single link without branches, and length 0 ("no evolution
\* data") only if the species carries no chain reference; a failing fetch never
\* turns a chain of several links into one of these.
C40_ShortChainsMeanWhatTheySay ==
    op = "evolutionShown" =>
        /\ Len(evolution.evolutionChain) = 1 =>
               /\ settled.request = "processEvolutionChain"
               /\ evolution.chain.evolves_to = <<>>
        /\ Len(evolution.evolutionChain) = 0 =>
               /\ settled.request = "fetchSpeciesById"
               /\ settled.outcome = "none"

====
